---- MODULE Spec2Model ----
(***************************************************************************)
(* Failure classification and error-response rendering of the web layer   *)
(* (src/web/error.rs): the AxumNope taxonomy, the From conversions that    *)
(* classify opaque errors, into_error_response (the selector) and the two  *)
(* renderers into_html_response / into_json_response.                      *)
(*                                                                         *)
(* One request at a time is followed from the handler's failure to the     *)
(* response (or the panic); requests are independent, so one suffices.     *)
(***************************************************************************)
EXTENDS Naturals, Sequences, FiniteSets, TLC

VARIABLES
    pc,            \* position of the request: see PcValues
    origin,        \* which conversion produced the failure
    err,           \* the opaque error handed to From<anyhow::Error> (<<>>: none)
    nope,          \* the AxumNope the handler failed with (into_response's self)
    surface,       \* "html" (AxumNope) or "json" (JsonAxumNope)
    self,          \* argument of the running into_error_response call
    calls,         \* number of into_error_response calls of this request
    buildFailure,  \* the error axum_cached_redirect returned (<<>>: none)
    reports,       \* causes handed to utils::report_error, in order
    shape,         \* the ErrorResponse, once selected
    response       \* the final response, once rendered

vars == <<pc, origin, err, nope, surface, self, calls, buildFailure,
          reports, shape, response>>

PcValues == {"handler", "failed", "into_error_response", "internal_info",
             "render", "done", "panicked"}

-----------------------------------------------------------------------------
(* Bounds of the model *)

\* longest redirect target drawn from PathChars
MaxPathLen == 2
\* most context layers wrapped around the root cause of an anyhow::Error
MaxContext == 1

-----------------------------------------------------------------------------
(* http::StatusCode values used by the module *)

NOT_FOUND == 404
BAD_REQUEST == 400
INTERNAL_SERVER_ERROR == 500
FOUND == 302

-----------------------------------------------------------------------------
(* Strings are sequences of one-character strings where their content     *)
(* matters (redirect targets); titles and messages are atoms.             *)

PathChars == {"/", "s", ">", " "}

\* the target of tests::test_redirect_error_encodes_url_path
TestPath == <<"/", "s", "o", "m", "e", "t", "h", "i", "n", "g", ">">>

Paths == UNION {[1..n -> PathChars] : n \in 0..MaxPathLen} \cup {TestPath}

CachePolicies == {"ForeverInCdnAndBrowser", "NoCaching"}

\* characters the path encoding escapes, with their two hex digits
UnsafeChars == {">", "<", " ", "#", "?"}

HexOf(c) ==
    CASE c = ">"  -> <<"3", "E">>
      [] c = "<"  -> <<"3", "C">>
      [] c = " "  -> <<"2", "0">>
      [] c = "#"  -> <<"2", "3">>
      [] c = "?"  -> <<"3", "F">>

PercentEncode(c) == IF c \in UnsafeChars THEN <<"%">> \o HexOf(c) ELSE <<c>>

RECURSIVE encode_url_path(_)
encode_url_path(path) ==
    IF path = <<>> THEN <<>>
    ELSE PercentEncode(Head(path)) \o encode_url_path(Tail(path))

-----------------------------------------------------------------------------
(* Opaque errors (anyhow::Error): a non-empty chain of typed layers, the   *)
(* outermost context first and the root cause last.                        *)

Msgs == {"db down", "not semver"}

PathNotFoundError == [type |-> "PathNotFoundError"]
OtherError(m) == [type |-> "Other", msg |-> m]
SqlxError(m) == [type |-> "sqlx::Error", msg |-> m]
PoolError(m) == [type |-> "PoolError", msg |-> m]
NopeError(n) == [type |-> "AxumNope", nope |-> n]

\* anyhow!(e) / anyhow::Error::new(e): an error whose only layer is e
anyhow(layer) == <<layer>>

\* causes carried by InternalError / BadRequest values the handlers build
Causes == {anyhow(PathNotFoundError)} \cup {anyhow(OtherError(m)) : m \in Msgs}

-----------------------------------------------------------------------------
(* The taxonomy (enum AxumNope) *)

UnitTags == {"ResourceNotFound", "BuildNotFound", "CrateNotFound",
             "OwnerNotFound", "VersionNotFound", "NoResults"}
Tags == UnitTags \cup {"InternalError", "BadRequest", "Redirect"}

Unit(tag) == [tag |-> tag]
InternalError(cause) == [tag |-> "InternalError", cause |-> cause]
BadRequest(cause) == [tag |-> "BadRequest", cause |-> cause]
Redirect(target, cache_policy) ==
    [tag |-> "Redirect", target |-> target, cache_policy |-> cache_policy]

AxumNope ==
    {Unit(t) : t \in UnitTags}
    \cup {InternalError(c) : c \in Causes}
    \cup {BadRequest(c) : c \in Causes}
    \cup {Redirect(p, cp) : p \in Paths, cp \in CachePolicies}

NoNope == [tag |-> "None"]

\* #[error("...")] of each variant: the Display of an AxumNope
NopeDisplay(n) ==
    CASE n.tag = "ResourceNotFound" -> "Requested resource not found"
      [] n.tag = "BuildNotFound"    -> "Requested build not found"
      [] n.tag = "CrateNotFound"    -> "Requested crate not found"
      [] n.tag = "OwnerNotFound"    -> "Requested owner not found"
      [] n.tag = "VersionNotFound"  -> "Requested crate does not have specified version"
      [] n.tag = "NoResults"        -> "Search yielded no results"
      [] n.tag = "InternalError"    -> "internal error"
      [] n.tag = "BadRequest"       -> "bad request"
      [] n.tag = "Redirect"         -> "redirect"

\* Display of one layer of an error
LayerDisplay(layer) ==
    CASE layer.type = "AxumNope"          -> NopeDisplay(layer.nope)
      [] layer.type = "PathNotFoundError" -> "path not found"
      [] OTHER                            -> layer.msg

\* source.to_string(): anyhow displays the outermost layer
to_string(e) == LayerDisplay(e[1])

\* the opaque errors a handler can fail with
RootLayers ==
    {NopeError(n) : n \in AxumNope}
    \cup {PathNotFoundError}
    \cup {OtherError(m) : m \in Msgs}

ContextLayers ==
    {PathNotFoundError, OtherError("not semver"), NopeError(Unit("CrateNotFound"))}

AnyhowErrors ==
    {ctx \o <<root>> :
        ctx \in UNION {[1..n -> ContextLayers] : n \in 0..MaxContext},
        root \in RootLayers}

-----------------------------------------------------------------------------
(* Classifier: impl From<anyhow::Error> for AxumNope, and the two direct   *)
(* conversions.                                                            *)

HasType(e, T) == \E i \in DOMAIN e : e[i].type = T

FirstOfType(e, T) ==
    CHOOSE i \in DOMAIN e : e[i].type = T /\ \A j \in 1..(i - 1) : e[j].type # T

\* err.downcast::<T>(): Ok(the first layer of type T), or Err(the error itself)
downcast(e, T) ==
    IF HasType(e, T)
    THEN [ok |-> TRUE, value |-> e[FirstOfType(e, T)]]
    ELSE [ok |-> FALSE, err |-> e]

\* variant: the two downcasts in the other order
from_anyhow_PathNotFoundFirst(e) ==
    LET r1 == downcast(e, "PathNotFoundError") IN
    IF r1.ok THEN Unit("ResourceNotFound")
    ELSE LET r2 == downcast(r1.err, "AxumNope") IN
         IF r2.ok THEN r2.value.nope ELSE InternalError(r2.err)

\* variant: the PathNotFoundError downcast left out
from_anyhow_NoPathNotFound(e) ==
    LET r1 == downcast(e, "AxumNope") IN
    IF r1.ok THEN r1.value.nope ELSE InternalError(r1.err)

from_anyhow(e) ==
    LET r1 == downcast(e, "AxumNope") IN
    IF r1.ok THEN r1.value.nope
    ELSE LET r2 == downcast(r1.err, "PathNotFoundError") IN
         IF r2.ok THEN Unit("ResourceNotFound") ELSE InternalError(r2.err)

from_sqlx(m) == InternalError(anyhow(SqlxError(m)))

from_pool(m) == InternalError(anyhow(PoolError(m)))

-----------------------------------------------------------------------------
(* Selector: AxumNope::into_error_response, arm by arm.                    *)

NoShape == [kind |-> "None"]

\* variant: VersionNotFound given the crate title
InfoTitle_Swapped(tag) ==
    CASE tag = "ResourceNotFound" -> "The requested resource does not exist"
      [] tag = "BuildNotFound"    -> "The requested build does not exist"
      [] tag = "CrateNotFound"    -> "The requested crate does not exist"
      [] tag = "OwnerNotFound"    -> "The requested owner does not exist"
      [] tag = "VersionNotFound"  -> "The requested crate does not exist"
      [] tag = "BadRequest"       -> "Bad request"
      [] tag = "InternalError"    -> "Internal Server Error"

InfoTitle(tag) ==
    CASE tag = "ResourceNotFound" -> "The requested resource does not exist"
      [] tag = "BuildNotFound"    -> "The requested build does not exist"
      [] tag = "CrateNotFound"    -> "The requested crate does not exist"
      [] tag = "OwnerNotFound"    -> "The requested owner does not exist"
      [] tag = "VersionNotFound"  -> "The requested version does not exist"
      [] tag = "BadRequest"       -> "Bad request"
      [] tag = "InternalError"    -> "Internal Server Error"

InfoMessage(n) ==
    CASE n.tag = "ResourceNotFound" -> "no such resource"
      [] n.tag = "BuildNotFound"    -> "no such build"
      [] n.tag = "CrateNotFound"    -> "no such crate"
      [] n.tag = "OwnerNotFound"    -> "no such owner"
      [] n.tag = "VersionNotFound"  -> "no such version for this crate"
      [] n.tag = "BadRequest"       -> to_string(n.cause)
      [] n.tag = "InternalError"    -> to_string(n.cause)

\* variant: BadRequest answered as an internal error
InfoStatus_BadRequestAs500(tag) ==
    CASE tag = "BadRequest"    -> INTERNAL_SERVER_ERROR
      [] tag = "InternalError" -> INTERNAL_SERVER_ERROR
      [] OTHER                 -> NOT_FOUND

InfoStatus(tag) ==
    CASE tag = "BadRequest"    -> BAD_REQUEST
      [] tag = "InternalError" -> INTERNAL_SERVER_ERROR
      [] OTHER                 -> NOT_FOUND

\* ErrorResponse::ErrorInfo(ErrorInfo { title, message, status })
ErrorInfo(n) ==
    [kind |-> "ErrorInfo", title |-> InfoTitle(n.tag),
     message |-> InfoMessage(n), status |-> InfoStatus(n.tag)]

\* ErrorResponse::Search(Search { title, status, ..Default::default() })
SearchDefault ==
    [kind |-> "Search", title |-> "No results given for empty search query",
     status |-> NOT_FOUND, results |-> <<>>]

\* the arms that neither report nor redirect
\* variant: NoResults given a generic ErrorInfo
PureArm_NoResultsAsInfo(n) ==
    IF n.tag = "NoResults"
    THEN [kind |-> "ErrorInfo", title |-> "No results given for empty search query",
          message |-> "no results", status |-> NOT_FOUND]
    ELSE ErrorInfo(n)

PureArm(n) == IF n.tag = "NoResults" THEN SearchDefault ELSE ErrorInfo(n)

\* utils::report_error(&source): hands the cause to the telemetry collaborator
report_error(log, source) == Append(log, source)

\* line 96: the InternalError arm reports before it builds the ErrorInfo
\* variant: the report left out
InternalErrorReport_Skipped(log, n) == log

InternalErrorReport(log, n) == report_error(log, n.cause)

\* super::axum_cached_redirect(uri, cache_policy): the redirect response, or
\* an error; which inputs fail is the collaborator's business
RedirectBuildErrors == {anyhow(OtherError("invalid redirect"))}

axum_cached_redirect(uri, cache_policy) ==
    {[ok |-> TRUE,
      response |-> [content |-> "redirect", status |-> FOUND,
                    location |-> uri, cache_policy |-> cache_policy]]}
    \cup {[ok |-> FALSE, err |-> e] : e \in RedirectBuildErrors}

\* line 104: what the Redirect arm asks the redirect builder for
\* variant: the target handed over without encoding
RedirectAttempt_RawTarget(n) == axum_cached_redirect(n.target, n.cache_policy)

RedirectAttempt(n) ==
    axum_cached_redirect(encode_url_path(n.target), n.cache_policy)

\* line 107: the value the Redirect arm re-enters the selector with
\* variant: the redirect itself tried again
RedirectErrArm_Retry(n, e) == n

RedirectErrArm(n, e) == InternalError(e)

-----------------------------------------------------------------------------
(* Renderers: ErrorResponse::into_html_response / into_json_response.      *)

NoResponse == [content |-> "None"]

\* AxumErrorPage { title, message, status }.into_response()
AxumErrorPage(title, message, status) ==
    [content |-> "html", template |-> "error", status |-> status,
     title |-> title, message |-> message]

\* Search::into_response(): the search-results page with its own status
SearchPage(search) ==
    [content |-> "html", template |-> "search", status |-> search.status,
     title |-> search.title, results |-> search.results]

\* (status, Json(json!({"result": "err", "title": .., "message": ..})))
JsonEnvelope(title, message, status) ==
    [content |-> "json", status |-> status,
     body |-> [result |-> "err", title |-> title, message |-> message]]

Returned(r) == [panic |-> FALSE, response |-> r]
Panicked == [panic |-> TRUE]

into_html_response(s) ==
    CASE s.kind = "ErrorInfo" -> Returned(AxumErrorPage(s.title, s.message, s.status))
      [] s.kind = "Redirect"  -> Returned(s.response)
      [] s.kind = "Search"    -> Returned(SearchPage(s))

\* variant: Search answered with an envelope instead of the panic
into_json_response_SearchAsJson(s) ==
    CASE s.kind = "ErrorInfo" -> Returned(JsonEnvelope(s.title, s.message, s.status))
      [] s.kind = "Redirect"  -> Returned(s.response)
      [] s.kind = "Search"    -> Returned(JsonEnvelope(s.title, "", s.status))

\* variant: ErrorInfo rendered as the HTML page
into_json_response_InfoAsHtml(s) ==
    CASE s.kind = "ErrorInfo" -> Returned(AxumErrorPage(s.title, s.message, s.status))
      [] s.kind = "Redirect"  -> Returned(s.response)
      [] s.kind = "Search"    -> Panicked

into_json_response(s) ==
    CASE s.kind = "ErrorInfo" -> Returned(JsonEnvelope(s.title, s.message, s.status))
      [] s.kind = "Redirect"  -> Returned(s.response)
      [] s.kind = "Search"    -> Panicked

-----------------------------------------------------------------------------
(* The request: a handler fails, the framework calls into_response on the  *)
(* failure, into_response selects the shape and renders it.                *)

Init ==
    /\ pc = "handler"
    /\ origin = "none"
    /\ err = <<>>
    /\ nope = NoNope
    /\ surface = "none"
    /\ self = NoNope
    /\ calls = 0
    /\ buildFailure = <<>>
    /\ reports = <<>>
    /\ shape = NoShape
    /\ response = NoResponse

\* a handler's `?` converts an anyhow::Error (From<anyhow::Error>)
FailAnyhow(e) ==
    /\ pc = "handler"
    /\ origin' = "anyhow"
    /\ err' = e
    /\ nope' = from_anyhow(e)
    /\ pc' = "failed"
    /\ UNCHANGED <<surface, self, calls, buildFailure, reports, shape, response>>

\* a handler's `?` converts a sqlx::Error (From<sqlx::Error>)
FailSqlx(m) ==
    /\ pc = "handler"
    /\ origin' = "sqlx"
    /\ err' = anyhow(SqlxError(m))
    /\ nope' = from_sqlx(m)
    /\ pc' = "failed"
    /\ UNCHANGED <<surface, self, calls, buildFailure, reports, shape, response>>

\* a handler's `?` converts a PoolError (From<PoolError>)
FailPool(m) ==
    /\ pc = "handler"
    /\ origin' = "pool"
    /\ err' = anyhow(PoolError(m))
    /\ nope' = from_pool(m)
    /\ pc' = "failed"
    /\ UNCHANGED <<surface, self, calls, buildFailure, reports, shape, response>>

\* a handler returns Err(AxumNope::...) it built itself
FailDirect(n) ==
    /\ pc = "handler"
    /\ origin' = "direct"
    /\ nope' = n
    /\ pc' = "failed"
    /\ UNCHANGED <<err, surface, self, calls, buildFailure, reports, shape, response>>

\* impl IntoResponse for AxumNope: self.into_error_response()...
AxumNope_into_response ==
    /\ pc = "failed"
    /\ surface' = "html"
    /\ self' = nope
    /\ calls' = 1
    /\ pc' = "into_error_response"
    /\ UNCHANGED <<origin, err, nope, buildFailure, reports, shape, response>>

\* impl IntoResponse for JsonAxumNope: self.0.into_error_response()...
JsonAxumNope_into_response ==
    /\ pc = "failed"
    /\ surface' = "json"
    /\ self' = nope
    /\ calls' = 1
    /\ pc' = "into_error_response"
    /\ UNCHANGED <<origin, err, nope, buildFailure, reports, shape, response>>

\* into_error_response: the *NotFound, NoResults and BadRequest arms
SelectPure ==
    /\ pc = "into_error_response"
    /\ self.tag \in UnitTags \cup {"BadRequest"}
    /\ shape' = PureArm(self)
    /\ pc' = "render"
    /\ UNCHANGED <<origin, err, nope, surface, self, calls, buildFailure,
                   reports, response>>

\* into_error_response: the InternalError arm, report_error(&source)
SelectInternalReport ==
    /\ pc = "into_error_response"
    /\ self.tag = "InternalError"
    /\ reports' = InternalErrorReport(reports, self)
    /\ pc' = "internal_info"
    /\ UNCHANGED <<origin, err, nope, surface, self, calls, buildFailure,
                   shape, response>>

\* into_error_response: the InternalError arm, the ErrorInfo it returns
SelectInternalInfo ==
    /\ pc = "internal_info"
    /\ shape' = ErrorInfo(self)
    /\ pc' = "render"
    /\ UNCHANGED <<origin, err, nope, surface, self, calls, buildFailure,
                   reports, response>>

\* into_error_response: the Redirect arm, Ok(response)
SelectRedirectOk ==
    /\ pc = "into_error_response"
    /\ self.tag = "Redirect"
    /\ \E r \in RedirectAttempt(self) :
        /\ r.ok
        /\ shape' = [kind |-> "Redirect", response |-> r.response]
    /\ pc' = "render"
    /\ UNCHANGED <<origin, err, nope, surface, self, calls, buildFailure,
                   reports, response>>

\* into_error_response: the Redirect arm, Err(err): recurse 1 step
SelectRedirectErr ==
    /\ pc = "into_error_response"
    /\ self.tag = "Redirect"
    /\ \E r \in RedirectAttempt(self) :
        /\ ~r.ok
        /\ buildFailure' = r.err
        /\ self' = RedirectErrArm(self, r.err)
    /\ calls' = calls + 1
    /\ pc' = "into_error_response"
    /\ UNCHANGED <<origin, err, nope, surface, reports, shape, response>>

\* the renderer's result reaches the framework, or the panic unwinds
Deliver(r) ==
    IF r.panic
    THEN pc' = "panicked" /\ UNCHANGED response
    ELSE pc' = "done" /\ response' = r.response

\* ....into_html_response()
RenderHtml ==
    /\ pc = "render"
    /\ surface = "html"
    /\ Deliver(into_html_response(shape))
    /\ UNCHANGED <<origin, err, nope, surface, self, calls, buildFailure,
                   reports, shape>>

\* ....into_json_response()
RenderJson ==
    /\ pc = "render"
    /\ surface = "json"
    /\ Deliver(into_json_response(shape))
    /\ UNCHANGED <<origin, err, nope, surface, self, calls, buildFailure,
                   reports, shape>>

\* the request is over; the next one starts from nothing
NextRequest ==
    /\ pc \in {"done", "panicked"}
    /\ pc' = "handler"
    /\ origin' = "none"
    /\ err' = <<>>
    /\ nope' = NoNope
    /\ surface' = "none"
    /\ self' = NoNope
    /\ calls' = 0
    /\ buildFailure' = <<>>
    /\ reports' = <<>>
    /\ shape' = NoShape
    /\ response' = NoResponse

\* the steps of one into_response call, which runs to completion
Step ==
    \/ SelectPure
    \/ SelectInternalReport
    \/ SelectInternalInfo
    \/ SelectRedirectOk
    \/ SelectRedirectErr
    \/ RenderHtml
    \/ RenderJson

Next ==
    \/ \E e \in AnyhowErrors : FailAnyhow(e)
    \/ \E m \in Msgs : FailSqlx(m)
    \/ \E m \in Msgs : FailPool(m)
    \/ \E n \in AxumNope : FailDirect(n)
    \/ AxumNope_into_response
    \/ JsonAxumNope_into_response
    \/ Step
    \/ NextRequest

Spec == Init /\ [][Next]_vars

\* into_response is a synchronous call: once entered it runs to its end
FairSpec == Spec /\ WF_vars(Step)

-----------------------------------------------------------------------------
(* The taxonomy table of the specification, and what a response shows.     *)

TableStatus(tag) ==
    CASE tag \in UnitTags      -> 404
      [] tag = "BadRequest"    -> 400
      [] tag = "InternalError" -> 500

TableTitle(tag) ==
    CASE tag = "ResourceNotFound" -> "The requested resource does not exist"
      [] tag = "BuildNotFound"    -> "The requested build does not exist"
      [] tag = "CrateNotFound"    -> "The requested crate does not exist"
      [] tag = "OwnerNotFound"    -> "The requested owner does not exist"
      [] tag = "VersionNotFound"  -> "The requested version does not exist"
      [] tag = "NoResults"        -> "No results given for empty search query"
      [] tag = "BadRequest"       -> "Bad request"
      [] tag = "InternalError"    -> "Internal Server Error"

InfoTags == (UnitTags \ {"NoResults"}) \cup {"BadRequest", "InternalError"}

Selected == shape.kind # "None"
RedirectBuildFailed == buildFailure # <<>>
JsonNoResults == surface = "json" /\ nope.tag = "NoResults"

-----------------------------------------------------------------------------
(* C1: every kind but Redirect (and but NoResults on the JSON path) is     *)
(* answered, through AxumNope::into_response and through                   *)
(* JsonAxumNope::into_response alike, with the status of the taxonomy      *)
(* table: 404 for the five *NotFound kinds and NoResults, 400 for          *)
(* BadRequest, 500 for InternalError; none of them panics.                 *)
C1_StatusCodes ==
    (nope.tag \in Tags \ {"Redirect"} /\ ~JsonNoResults)
        => /\ pc # "panicked"
           /\ pc = "done" => response.status = TableStatus(nope.tag)

C1_Witness ==
    /\ pc = "done"
    /\ surface = "json"
    /\ nope.tag = "BadRequest"
    /\ response.status = 400

(* C2: a Redirect whose redirect build succeeds is answered with status    *)
(* 302 and a Location that is the percent-encoded target: no unsafe        *)
(* character is left in it, and "/something>" gives "/something%3E".       *)
C2_RedirectLocation ==
    (pc = "done" /\ nope.tag = "Redirect" /\ ~RedirectBuildFailed)
        => /\ response.status = 302
           /\ response.location = encode_url_path(nope.target)
           /\ \A i \in DOMAIN response.location :
                response.location[i] \notin UnsafeChars
           /\ (\E i \in DOMAIN nope.target : nope.target[i] \in UnsafeChars)
                => response.location # nope.target
           /\ nope.target = TestPath
                => response.location =
                     <<"/", "s", "o", "m", "e", "t", "h", "i", "n", "g", "%", "3", "E">>

C2_Witness ==
    /\ pc = "done"
    /\ surface = "html"
    /\ nope = Redirect(TestPath, "ForeverInCdnAndBrowser")
    /\ response.status = 302
    /\ response.location =
         <<"/", "s", "o", "m", "e", "t", "h", "i", "n", "g", "%", "3", "E">>

(* C3: every kind that maps to the Info shape is rendered by the HTML      *)
(* path with exactly the title of the taxonomy table for its tag, whatever *)
(* cause it carries.                                                       *)
C3_Titles ==
    (pc = "done" /\ surface = "html" /\ nope.tag \in InfoTags)
        => /\ shape.kind = "ErrorInfo"
           /\ response.content = "html"
           /\ response.title = TableTitle(nope.tag)

C3_Witness ==
    /\ pc = "done"
    /\ surface = "html"
    /\ nope = BadRequest(anyhow(OtherError("not semver")))
    /\ response.title = "Bad request"

(* C4: JsonAxumNope(NoResults).into_response never returns a response: it  *)
(* always ends in the panic of into_json_response.                         *)
C4_JsonNoResultsPanics ==
    /\ [](JsonNoResults => (response = NoResponse /\ pc # "done"))
    /\ (JsonNoResults ~> (pc = "panicked" /\ response = NoResponse))

C4_Witness ==
    /\ pc = "panicked"
    /\ JsonNoResults
    /\ shape = SearchDefault
    /\ response = NoResponse

(* C5: From<anyhow::Error> classifies every error to exactly one variant   *)
(* by first match: not an AxumNope but a PathNotFoundError gives           *)
(* ResourceNotFound; neither of them gives InternalError wrapping the      *)
(* very error that came in.                                                *)
C5_ClassifierFirstMatch ==
    origin = "anyhow"
        => /\ nope.tag \in Tags
           /\ (~HasType(err, "AxumNope") /\ HasType(err, "PathNotFoundError"))
                => nope = Unit("ResourceNotFound")
           /\ (~HasType(err, "AxumNope") /\ ~HasType(err, "PathNotFoundError"))
                => nope = InternalError(err)

C5_Witness ==
    /\ pc = "failed"
    /\ origin = "anyhow"
    /\ err = <<OtherError("not semver"), PathNotFoundError>>
    /\ nope = Unit("ResourceNotFound")

(* C6: classifying an error that already is an AxumNope returns that       *)
(* AxumNope, tag and payload, and classifying the result of a              *)
(* classification again changes nothing.                                   *)
C6_Idempotent ==
    /\ (origin = "anyhow" /\ HasType(err, "AxumNope"))
         => nope = err[FirstOfType(err, "AxumNope")].nope
    /\ origin # "none" => from_anyhow(anyhow(NopeError(nope))) = nope

C6_Witness ==
    /\ pc = "failed"
    /\ origin = "anyhow"
    /\ err = <<PathNotFoundError,
               NopeError(Redirect(TestPath, "NoCaching"))>>
    /\ nope = Redirect(TestPath, "NoCaching")

(* C7: when the redirect build fails, into_error_response is re-entered    *)
(* exactly once, with InternalError(the build failure), and the call ends: *)
(* with the Info shape, status 500 and title "Internal Server Error".      *)
C7_RedirectFailureDegrades ==
    /\ [](calls <= 2)
    /\ [](RedirectBuildFailed
            => /\ calls = 2
               /\ self = InternalError(buildFailure)
               /\ pc # "panicked"
               /\ Selected
                    => /\ shape.kind = "ErrorInfo"
                       /\ shape.status = 500
                       /\ shape.title = "Internal Server Error")
    /\ (RedirectBuildFailed
          ~> (pc = "done" /\ shape.kind = "ErrorInfo" /\ shape.status = 500))

C7_Witness ==
    /\ pc = "done"
    /\ nope.tag = "Redirect"
    /\ RedirectBuildFailed
    /\ calls = 2
    /\ shape.title = "Internal Server Error"
    /\ response.status = 500

(* C8 as stated: report_error is called once, with the cause, for an       *)
(* InternalError, and not at all for a failure of any other kind.          *)
C8_ReportOnlyInternalError ==
    Selected
        => reports = IF nope.tag = "InternalError" THEN <<nope.cause>> ELSE <<>>

(* C8 amended: report_error is called once, with the cause and before the  *)
(* Info shape is built, for every InternalError the selector handles: the  *)
(* one a handler failed with and the one a failed redirect build is        *)
(* re-entered with; no other failure is reported.                          *)
C8_ReportInternalErrorOrFailedRedirect ==
    /\ [](Selected
            => reports = IF nope.tag = "InternalError" THEN <<nope.cause>>
                         ELSE IF RedirectBuildFailed THEN <<buildFailure>>
                         ELSE <<>>)
    /\ [](self.tag # "InternalError" => reports = <<>>)
    /\ [][(~Selected /\ shape'.kind # "None" /\ self.tag = "InternalError")
            => reports = <<self.cause>>]_vars

C8_Witness ==
    /\ pc = "internal_info"
    /\ nope.tag = "Redirect"
    /\ ~Selected
    /\ reports = <<buildFailure>>
    /\ reports # <<>>

(* C9: the renderers never cross formats: the JSON path answers an Info    *)
(* shape with the envelope {result: "err", title, message} and the shape's *)
(* status, the HTML path answers Info and Search shapes with a page.       *)
C9_NoCrossFormat ==
    pc = "done"
        => /\ (surface = "json" /\ shape.kind = "ErrorInfo")
                => response =
                     [content |-> "json", status |-> shape.status,
                      body |-> [result |-> "err", title |-> shape.title,
                                message |-> shape.message]]
           /\ (surface = "html" /\ shape.kind \in {"ErrorInfo", "Search"})
                => /\ response.content = "html"
                   /\ "body" \notin DOMAIN response
                   /\ response.status = shape.status
                   /\ response.title = shape.title

C9_Witness ==
    /\ pc = "done"
    /\ surface = "json"
    /\ shape.kind = "ErrorInfo"
    /\ response.content = "json"
    /\ response.body.result = "err"

(* C10: the selector yields the Search shape exactly for NoResults, with   *)
(* status 404 and the title "No results given for empty search query".     *)
C10_SearchIffNoResults ==
    Selected
        => /\ shape.kind = "Search" <=> nope.tag = "NoResults"
           /\ shape.kind = "Search"
                => /\ shape.status = 404
                   /\ shape.title = "No results given for empty search query"

C10_Witness ==
    /\ pc = "done"
    /\ surface = "html"
    /\ nope.tag = "NoResults"
    /\ shape.kind = "Search"
    /\ response.status = 404

====
